---- MODULE Spec2Model ----
(***************************************************************************)
(* A model of the HII database decoder of hii_db_tool.py:                  *)
(*   HIIPackageList.scan      (database -> package lists)                  *)
(*   HIIPackageList.packages  (package list -> packages)                   *)
(*   HIIPackage.items         (package -> parsed body, memoized)           *)
(* Buffers are sequences of bytes (0..255); every cursor is the value of   *)
(* tell() of the io.BytesIO the code reads from.  One action is one        *)
(* iteration of a loop of the code, or the code that follows a loop.       *)
(***************************************************************************)
EXTENDS Integers, Sequences, FiniteSets, TLC

\* ------------------------------------------------------------ bounds
\* largest number of payload bytes that follow one 20-byte list header
MaxPayload == 4
\* the loops of scan and packages append on every iteration; an iteration
\* that does not advance the cursor repeats for ever, so the number of
\* elements a loop may collect is capped
MaxCollected == 4
\* number of calls made on one object
MaxRequests == 2
\* largest number of payload bytes that follow one 4-byte package header
MaxPkgPayload == 2
\* largest number of string information blocks in a STRINGS input
MaxBlocks == 3
\* largest number of device path nodes in a DEVICE_PATH input
MaxNodes == 2
\* largest number of body bytes that follow one device path node header
MaxNodeBody == 2
\* largest narrow_count and wide_count a SIMPLE_FONTS input declares
MaxNarrow == 2
MaxWide == 1

\* ------------------------------------------------------------ enums
TYPE_ALL == 0
TYPE_GUID == 1
FORMS == 2
STRINGS == 4
FONTS == 5
IMAGES == 6
SIMPLE_FONTS == 7
DEVICE_PATH == 8
KEYBOARD_LAYOUT == 9
PACKAGE_ANIMATIONS == 10
PACKAGE_END == 223
TYPE_SYSTEM_BEGIN == 224
TYPE_SYSTEM_END == 255

\* HIIPackageTypes(x) raises ValueError unless x is the value of a member
HIIPackageTypes ==
  {TYPE_ALL, TYPE_GUID, FORMS, STRINGS, FONTS, IMAGES, SIMPLE_FONTS,
   DEVICE_PATH, KEYBOARD_LAYOUT, PACKAGE_ANIMATIONS, PACKAGE_END,
   TYPE_SYSTEM_BEGIN, TYPE_SYSTEM_END}

\* the values of StringInfoBlockTypes
END == 0
STRING_SCSU == 16
STRING_SCSU_FONT == 17
STRINGS_SCSU == 18
STRINGS_SCSU_FONT == 19
STRING_UCS2 == 20
STRING_UCS2_FONT == 21
STRINGS_UCS2 == 22
STRINGS_UCS2_FONT == 23
DUPLICATE == 32
SKIP2 == 33
SKIP1 == 34
EXT1 == 48
EXT2 == 49
EXT4 == 50
FONT == 64

\* StringInfoBlockTypes(x) raises ValueError unless x is the value of a member
StringInfoBlockTypes ==
  {END, STRING_SCSU, STRING_SCSU_FONT, STRINGS_SCSU, STRINGS_SCSU_FONT,
   STRING_UCS2, STRING_UCS2_FONT, STRINGS_UCS2, STRINGS_UCS2_FONT, DUPLICATE,
   SKIP2, SKIP1, EXT1, EXT2, EXT4, FONT}

\* the type of the node that ends a device path
END_OF_HARDWARE_DEVICE_PATH == 127

\* ------------------------------------------------------------ bytes
Min(a, b) == IF a < b THEN a ELSE b

\* Python's s[a:b] for 0 <= a and 0 <= b
Slice(s, a, b) == SubSeq(s, a + 1, Min(b, Len(s)))

\* io.BytesIO.read(n) with the cursor at p: the bytes returned.  A negative
\* n reads up to the end of the buffer; a cursor past the end reads nothing.
Read(s, p, n) == IF n < 0 THEN Slice(s, p, Len(s)) ELSE Slice(s, p, p + n)

Zeros(n) == [i \in 1..n |-> 0]

\* struct.unpack('=L', b) for a 4-byte b (little-endian host); the sizes of
\* the inputs stay below 2^24, so that the sums the code forms fit an integer
unpack_L(b) == b[1] + 256 * b[2] + 65536 * b[3] + 16777216 * b[4]

\* the 4 bytes struct.unpack('=L', .) turns into n
pack_L(n) ==
  <<n % 256, (n \div 256) % 256, (n \div 65536) % 256, (n \div 16777216) % 256>>

\* unpack('=L', b)[0] & 0xFFFFFF and (unpack('=L', b)[0] >> 24) & 0xFF, taken
\* from the bytes: the 32-bit header of a package with type 0xDF does not fit
\* the model checker's signed 32-bit integers, its two fields do
HeaderSize(b) == b[1] + 256 * b[2] + 65536 * b[3]

HeaderType(b) == b[4]

\* the 4 header bytes of a package of type t and declared size n
pack_header(t, n) == <<n % 256, (n \div 256) % 256, (n \div 65536) % 256, t>>

\* struct.unpack('=H', b) for a 2-byte b, and the bytes it turns into n
unpack_H(b) == b[1] + 256 * b[2]

pack_H(n) == <<n % 256, (n \div 256) % 256>>

\* bytes.decode('UTF-16') of one 2-byte code unit on a little-endian host:
\* a byte order mark (FF FE or FE FF) decodes to the empty string, a lone
\* surrogate (D800..DFFF) raises UnicodeDecodeError, any other unit decodes
\* to the one character with that code
decode_UTF16(b) ==
  IF b = <<255, 254>> \/ b = <<254, 255>>
  THEN [ok |-> TRUE, text |-> << >>]
  ELSE IF b[2] >= 216 /\ b[2] <= 223
  THEN [ok |-> FALSE, text |-> << >>]
  ELSE [ok |-> TRUE, text |-> <<unpack_H(b)>>]

\* Optional values: None is the empty tuple, a value v is <<v>>
None == << >>

Some(v) == <<v>>

\* ------------------------------------------------------------ state
VARIABLES
  entry,              \* the operation under way: "scan", "packages", "items"
  blob,               \* hii_blob / self._pl_blob / self._package_blob
  package_type,       \* self._package_type of the HIIPackage
  pc,                 \* position in the code
  pos,                \* tell() of hii_blob_fd / pl_fd / package_fd
  package_lists,      \* scan: the list being built
  packages,           \* packages: the list being built
  self_packages,      \* HIIPackageList._packages
  self_package_items, \* HIIPackage._package_items
  package_items,      \* _parse_strings, _parse_device_paths: the list built
  block_type,         \* _parse_strings: the type of the last block read
  start_offset,       \* _parse_strings: where the block being read starts
  ng_count,           \* _parse_simple_fonts: narrow glyphs still to read
  wg_count,           \* _parse_simple_fonts: wide glyphs still to read
  narrow_glyphs,      \* _parse_simple_fonts: the narrow glyphs read
  wide_glyphs,        \* _parse_simple_fonts: the wide glyphs read
  parse_runs,         \* how many times a _parse_* method was entered
  ret,                \* the value the last call returned
  err,                \* the exception kind the last call raised
  requests            \* calls made so far on the object

vars ==
  <<entry, blob, package_type, pc, pos, package_lists, packages,
    self_packages, self_package_items, package_items, block_type,
    start_offset, ng_count, wg_count, narrow_glyphs, wide_glyphs, parse_runs,
    ret, err, requests>>

\* the locals of the parsers of HIIPackage
parser_vars ==
  <<package_items, block_type, ng_count, wg_count, narrow_glyphs,
    wide_glyphs>>

\* the state of the HIIPackage
package_vars == <<self_package_items, parse_runs>>

\* ------------------------------------------------------------ inputs
\* one package list as laid out in the database: 16 GUID bytes, the 32-bit
\* declared size, then k payload bytes, the first of them p0
ListBytes(size, k, p0) ==
  Zeros(16) \o pack_L(size) \o (IF k = 0 THEN << >> ELSE <<p0>> \o Zeros(k - 1))

ListSizes == {0, 4, 260} \cup (19 .. (20 + MaxPayload))

ListImages ==
  {ListBytes(s, k, p0) : s \in ListSizes, k \in 0..MaxPayload, p0 \in {0, 20}}

ScanInputs ==
  {<< >>} \cup ListImages \cup {a \o b : a \in ListImages, b \in ListImages}

\* one package as laid out in a package list: the 4-byte header (declared
\* size in the low 24 bits, type in the high 8), then k payload bytes, the
\* first of them p0
PackageBytes(t, size, k, p0) ==
  pack_header(t, size) \o (IF k = 0 THEN << >> ELSE <<p0>> \o Zeros(k - 1))

PackageSizes == {0, 1, 300} \cup (4 .. (4 + MaxPkgPayload))

PackageImages ==
  {PackageBytes(t, s, k, p0) :
     t \in {TYPE_ALL, 3, STRINGS, PACKAGE_END},
     s \in PackageSizes, k \in 0..MaxPkgPayload, p0 \in {0, PACKAGE_END}}

\* package list blobs: too short for the 20-byte header, a bare header, a
\* header followed by a part of a package header, by one or by two packages
PackagesInputs ==
  {Zeros(n) : n \in {0, 19, 20, 21, 23}}
    \cup {Zeros(20) \o a : a \in PackageImages}
    \cup {Zeros(20) \o a \o b : a \in PackageImages, b \in PackageImages}

\* the body of a STRINGS package: string information blocks, among them
\* a STRING_UCS2 block with and without its terminator, a FONT block (no
\* decoder), a byte that is no block type and an EXT2 block cut short
BlockImages ==
  {<<END>>, <<SKIP1, 1>>, <<SKIP2, 1, 2>>, <<DUPLICATE, 1, 2>>, <<EXT1, 1>>,
   <<EXT2, 1, 2>>, <<EXT4, 1, 2, 3, 4>>, <<STRING_UCS2, 65, 0, 0, 0>>,
   <<STRING_UCS2, 65, 0>>, <<FONT>>, <<1>>, <<EXT2, 1>>}

RECURSIVE BlockSeqs(_)
BlockSeqs(n) ==
  IF n = 0 THEN {<< >>}
  ELSE LET shorter == BlockSeqs(n - 1)
       IN shorter \cup {a \o b : a \in shorter, b \in BlockImages}

\* a STRINGS package blob: 4 bytes of package header, header_size,
\* string_info_offset, the blocks
StringsBytes(header_size, string_info_offset, body) ==
  Zeros(4) \o pack_L(header_size) \o pack_L(string_info_offset) \o body

StringsInputs ==
  {StringsBytes(12, 12, body) : body \in BlockSeqs(MaxBlocks)}
    \cup {StringsBytes(h[1], h[2], body) :
            h \in {<<12, 13>>, <<13, 13>>, <<8, 8>>, <<300, 300>>},
            body \in {<<END>>, <<9, END>>}}
    \cup {Zeros(n) : n \in {0, 6, 11}}

\* one device path node: type, sub-type, the 16-bit declared length, then k
\* body bytes
NodeBytes(t, st, length, k) ==
  <<t, st>> \o pack_H(length) \o SubSeq(<<170, 187, 204, 221, 238>>, 1, k)

NodeImages ==
  {NodeBytes(1, 1, length, k) :
     length \in {0, 3, 300} \cup (4 .. (4 + MaxNodeBody)), k \in 0..MaxNodeBody}
    \cup {NodeBytes(END_OF_HARDWARE_DEVICE_PATH, 255, 4, k) : k \in {0, 1}}

RECURSIVE NodeSeqs(_)
NodeSeqs(n) ==
  IF n = 0 THEN {<< >>}
  ELSE LET shorter == NodeSeqs(n - 1)
       IN shorter \cup {a \o b : a \in shorter, b \in NodeImages}

DevicePathInputs ==
  {Zeros(4) \o body : body \in NodeSeqs(MaxNodes)}
    \cup {Zeros(n) : n \in {0, 1, 5, 7}}

\* m bytes of glyph records, all 0 but for the code unit cu at offset o
GlyphBytes(m, cu, o) ==
  [i \in 1..m |-> IF i = o + 1 THEN cu[1] ELSE IF i = o + 2 THEN cu[2] ELSE 0]

\* a SIMPLE_FONTS package blob: 4 bytes of package header, the two 16-bit
\* counts, the glyph records
FontsBytes(n, w, body) == Zeros(4) \o pack_H(n) \o pack_H(w) \o body

FontsInputs ==
  {FontsBytes(n, w, GlyphBytes(m, cu, o)) :
     n \in 0..MaxNarrow, w \in 0..MaxWide,
     m \in 0..(22 * MaxNarrow + 47 * MaxWide + 1),
     cu \in {<<65, 0>>, <<0, 216>>, <<255, 254>>}, o \in {0, 22}}
    \cup {Zeros(n) : n \in {0, 4, 6, 7}}

\* the packages items is requested of: <<package_type, package_blob>>
ItemsInputs ==
  {<<t, Zeros(4)>> : t \in HIIPackageTypes}
    \cup {<<STRINGS, b>> : b \in StringsInputs}
    \cup {<<DEVICE_PATH, b>> : b \in DevicePathInputs}
    \cup {<<SIMPLE_FONTS, b>> : b \in FontsInputs}

\* ------------------------------------------------------------ outcomes
\* raise kind(...)
Raise(kind) ==
  /\ pc' = "error"
  /\ err' = kind
  /\ ret' = None

\* return v
Return(v) ==
  /\ pc' = "returned"
  /\ err' = ""
  /\ ret' = Some(v)

\* ------------------------------------------------------------ scan
\* HIIPackageList.scan(hii_blob), up to the first test of the loop
ScanCall ==
  /\ entry = "scan"
  /\ pc \in {"idle", "returned", "error"}
  /\ requests < MaxRequests
  /\ requests' = requests + 1
  /\ pc' = "scan"
  /\ pos' = 0
  /\ package_lists' = << >>
  /\ ret' = None
  /\ err' = ""
  /\ UNCHANGED <<entry, blob, package_type, packages, self_packages,
                 start_offset, parser_vars, package_vars>>

\* ScanNextPos without the seek back to start_offset: the list is read from
\* behind its header
ScanNextPos_noseek(start, package_list_size) ==
  start + 20 + Len(Read(blob, start + 20, package_list_size))

\* where one iteration of scan's loop leaves the cursor: it reads
\* package_list_size bytes from start
ScanNextPos(start, package_list_size) ==
  start + Len(Read(blob, start, package_list_size))

\* one iteration of the loop of scan
ScanIter ==
  /\ pc = "scan"
  /\ pos < Len(blob)
  /\ Len(package_lists) < MaxCollected
  /\ LET start == pos
     IN IF start + 20 > Len(blob)
        THEN /\ Raise("HIIDBError")
             /\ start_offset' = start
             /\ UNCHANGED <<pos, package_lists>>
        ELSE LET package_list_size == unpack_L(Read(blob, start + 16, 4))
             IN IF start + package_list_size > Len(blob)
                THEN /\ Raise("HIIDBError")
                     /\ start_offset' = start
                     /\ pos' = start + 20
                     /\ UNCHANGED package_lists
                ELSE /\ package_lists' =
                          Append(package_lists,
                                 Read(blob, start, package_list_size))
                     /\ pos' = ScanNextPos(start, package_list_size)
                     /\ start_offset' = start + package_list_size
                     /\ UNCHANGED <<pc, ret, err>>
  /\ UNCHANGED <<entry, blob, package_type, packages, self_packages,
                 parser_vars, package_vars, requests>>

\* the code after the loop of scan
ScanExit ==
  /\ pc = "scan"
  /\ pos >= Len(blob)
  /\ IF pos # Len(blob) THEN Raise("HIIDBError") ELSE Return(package_lists)
  /\ UNCHANGED <<entry, blob, package_type, pos, package_lists, packages,
                 self_packages, start_offset, parser_vars, package_vars,
                 requests>>

\* ------------------------------------------------------------ packages
\* HIIPackage(package_type, package_blob)
HIIPackage(t, b) ==
  [package_type |-> t, package_blob |-> b, package_items |-> None]

\* HIIPackageList.packages, up to the first test of the loop; a list whose
\* packages were decoded before returns them again
PackagesCall ==
  /\ entry = "packages"
  /\ pc \in {"idle", "returned", "error"}
  /\ requests < MaxRequests
  /\ requests' = requests + 1
  /\ IF self_packages # None
     THEN /\ Return(self_packages[1])
          /\ UNCHANGED <<pos, packages>>
     ELSE /\ pc' = "packages"
          /\ pos' = 20
          /\ packages' = << >>
          /\ ret' = None
          /\ err' = ""
  /\ UNCHANGED <<entry, blob, package_type, package_lists, self_packages,
                 start_offset, parser_vars, package_vars>>

\* PackagesNextPos without the seek back to start_offset: the package is
\* read from behind its header
PackagesNextPos_noseek(start, package_size) ==
  start + 4 + Len(Read(blob, start + 4, package_size))

\* where one iteration of the loop of packages leaves the cursor after it
\* appended a package: it reads package_size bytes from start
PackagesNextPos(start, package_size) ==
  start + Len(Read(blob, start, package_size))

\* one iteration of the loop of packages
PackagesIter ==
  /\ pc = "packages"
  /\ pos < Len(blob)
  /\ Len(packages) < MaxCollected
  /\ start_offset' = pos
  /\ LET start == pos
         package_header == Read(blob, start, 4)
     IN IF start + 4 > Len(blob)
        THEN /\ Raise("HIIDBError")
             /\ UNCHANGED <<pos, packages>>
        ELSE IF start + HeaderSize(package_header) > Len(blob)
        THEN /\ Raise("HIIDBError")
             /\ pos' = start + 4
             /\ UNCHANGED packages
        ELSE IF HeaderType(package_header) \notin HIIPackageTypes
        THEN /\ Raise("ValueError")
             /\ pos' = start + 4
             /\ UNCHANGED packages
        ELSE IF HeaderType(package_header) = PACKAGE_END
        THEN /\ pc' = "packages_exit"
             /\ pos' = start + 4
             /\ UNCHANGED <<packages, ret, err>>
        ELSE /\ packages' =
                  Append(packages,
                         HIIPackage(HeaderType(package_header),
                                    Read(blob, start,
                                         HeaderSize(package_header))))
             /\ pos' = PackagesNextPos(start, HeaderSize(package_header))
             /\ UNCHANGED <<pc, ret, err>>
  /\ UNCHANGED <<entry, blob, package_type, package_lists, self_packages,
                 parser_vars, package_vars, requests>>

\* the code after the loop of packages
PackagesExit ==
  /\ \/ pc = "packages" /\ pos >= Len(blob)
     \/ pc = "packages_exit"
  /\ IF pos # Len(blob)
     THEN Raise("HIIDBError") /\ UNCHANGED self_packages
     ELSE Return(packages) /\ self_packages' = Some(packages)
  /\ UNCHANGED <<entry, blob, package_type, pos, package_lists, packages,
                 start_offset, parser_vars, package_vars, requests>>

\* ------------------------------------------------------------ items
\* NeedsParse without the test: every request parses
NeedsParse_always == TRUE

\* the test "self._package_items is None" of the items property
NeedsParse == self_package_items = None

\* StringBlockSkip with SKIP1 skipping 2 bytes, as SKIP2 does
StringBlockSkip_skip1two(t) ==
  IF t = SKIP1 THEN 2
  ELSE IF t = SKIP2 THEN 2
  ELSE IF t = DUPLICATE THEN 2
  ELSE IF t = EXT1 THEN 1
  ELSE IF t = EXT2 THEN 2
  ELSE IF t = EXT4 THEN 4
  ELSE 0

\* how many bytes _parse_strings skips after the tag of a fixed-size block
StringBlockSkip(t) ==
  IF t = SKIP1 THEN 1
  ELSE IF t = SKIP2 THEN 2
  ELSE IF t = DUPLICATE THEN 2
  ELSE IF t = EXT1 THEN 1
  ELSE IF t = EXT2 THEN 2
  ELSE IF t = EXT4 THEN 4
  ELSE 0

\* the block types _parse_strings delimits by a fixed number of bytes
FixedBlocks == {END, SKIP1, SKIP2, DUPLICATE, EXT1, EXT2, EXT4}

\* _parse_strings, up to the first test of its loop
ParseStringsBegin ==
  LET header == Slice(blob, 4, 12)
  IN IF Len(header) # 8
     THEN /\ Raise("struct.error")
          /\ UNCHANGED <<pos, package_items, block_type>>
     ELSE LET header_size == unpack_L(SubSeq(header, 1, 4))
              string_info_offset == unpack_L(SubSeq(header, 5, 8))
          IN IF header_size # string_info_offset
             THEN /\ Raise("AssertionError")
                  /\ UNCHANGED <<pos, package_items, block_type>>
             ELSE /\ pc' = "strings"
                  /\ pos' = header_size
                  /\ package_items' = << >>
                  /\ block_type' = None
                  /\ ret' = None
                  /\ err' = ""

\* _parse_device_paths, up to the first test of its loop
ParseDevicePathsBegin ==
  /\ pc' = "device_paths"
  /\ pos' = 4
  /\ package_items' = << >>
  /\ ret' = None
  /\ err' = ""

\* _parse_simple_fonts, up to the first test of its first loop
ParseSimpleFontsBegin ==
  LET counts == Read(blob, 4, 4)
  IN IF Len(counts) # 4
     THEN /\ Raise("struct.error")
          /\ pos' = 4 + Len(counts)
          /\ UNCHANGED <<ng_count, wg_count, narrow_glyphs, wide_glyphs>>
     ELSE /\ pc' = "simple_fonts"
          /\ pos' = 8
          /\ ng_count' = unpack_H(SubSeq(counts, 1, 2))
          /\ wg_count' = unpack_H(SubSeq(counts, 3, 4))
          /\ narrow_glyphs' = << >>
          /\ wide_glyphs' = << >>
          /\ ret' = None
          /\ err' = ""

\* the items property of HIIPackage: the cached body, or the start of the
\* parser of the package's type (_parse_forms is all done here)
ItemsRequest ==
  /\ entry = "items"
  /\ pc \in {"idle", "returned", "error"}
  /\ requests < MaxRequests
  /\ requests' = requests + 1
  /\ IF ~NeedsParse
     THEN /\ Return(self_package_items[1])
          /\ UNCHANGED <<pos, parser_vars, package_vars>>
     ELSE IF package_type = STRINGS
     THEN /\ ParseStringsBegin
          /\ parse_runs' = parse_runs + 1
          /\ UNCHANGED <<self_package_items, ng_count, wg_count,
                         narrow_glyphs, wide_glyphs>>
     ELSE IF package_type = DEVICE_PATH
     THEN /\ ParseDevicePathsBegin
          /\ parse_runs' = parse_runs + 1
          /\ UNCHANGED <<self_package_items, block_type, ng_count, wg_count,
                         narrow_glyphs, wide_glyphs>>
     ELSE IF package_type = SIMPLE_FONTS
     THEN /\ ParseSimpleFontsBegin
          /\ parse_runs' = parse_runs + 1
          /\ UNCHANGED <<self_package_items, package_items, block_type>>
     ELSE IF package_type = FORMS
     THEN /\ self_package_items' = Some(<< >>)
          /\ Return(<< >>)
          /\ parse_runs' = parse_runs + 1
          /\ UNCHANGED <<pos, parser_vars>>
     ELSE /\ Raise("HIIDBError")
          /\ UNCHANGED <<pos, parser_vars, package_vars>>
  /\ UNCHANGED <<entry, blob, package_type, package_lists, packages,
                 self_packages, start_offset>>

\* what is left alone by the steps of the parsers of STRINGS, DEVICE_PATH
items_frame ==
  <<entry, blob, package_type, package_lists, packages, self_packages,
    ng_count, wg_count, narrow_glyphs, wide_glyphs, parse_runs, requests>>

\* one iteration of the loop of _parse_strings, but for the search of the
\* terminator of a STRING_UCS2 block, which Ucs2Read does
StringsIter ==
  /\ pc = "strings"
  /\ start_offset' = pos
  /\ LET tag == Read(blob, pos, 1)
     IN IF Len(tag) # 1
        THEN /\ Raise("struct.error")
             /\ UNCHANGED <<pos, package_items, block_type>>
        ELSE IF tag[1] \notin StringInfoBlockTypes
        THEN /\ Raise("ValueError")
             /\ pos' = pos + 1
             /\ UNCHANGED <<package_items, block_type>>
        ELSE IF tag[1] = STRING_UCS2
        THEN /\ pc' = "ucs2"
             /\ pos' = pos + 1
             /\ block_type' = Some(tag[1])
             /\ UNCHANGED <<package_items, ret, err>>
        ELSE IF tag[1] \in FixedBlocks
        THEN /\ pc' = IF tag[1] = END THEN "strings_exit" ELSE "strings"
             /\ pos' = pos + 1 + StringBlockSkip(tag[1])
             /\ block_type' = Some(tag[1])
             /\ package_items' =
                  Append(package_items,
                         Slice(blob, pos, pos + 1 + StringBlockSkip(tag[1])))
             /\ UNCHANGED <<ret, err>>
        ELSE /\ Raise("HIIDBError")
             /\ pos' = pos + 1
             /\ block_type' = Some(tag[1])
             /\ UNCHANGED package_items
  /\ UNCHANGED <<items_frame, self_package_items>>

\* one iteration of "while package_fd.read(2) != b'\x00\x00': pass"; when it
\* reads the terminator the block is appended
Ucs2Read ==
  /\ pc = "ucs2"
  /\ LET unit == Read(blob, pos, 2)
     IN /\ pos' = pos + Len(unit)
        /\ IF unit = <<0, 0>>
           THEN /\ pc' = "strings"
                /\ package_items' =
                     Append(package_items,
                            Slice(blob, start_offset, pos + Len(unit)))
           ELSE UNCHANGED <<pc, package_items>>
  /\ UNCHANGED <<items_frame, self_package_items, block_type, start_offset,
                 ret, err>>

\* the code after the loop of _parse_strings, and the return of items
StringsExit ==
  /\ pc = "strings_exit"
  /\ IF pos # Len(blob)
     THEN Raise("AssertionError") /\ UNCHANGED self_package_items
     ELSE Return(package_items) /\ self_package_items' = Some(package_items)
  /\ UNCHANGED <<items_frame, pos, package_items, block_type, start_offset>>

\* one iteration of the loop of _parse_device_paths
DevicePathsIter ==
  /\ pc = "device_paths"
  /\ pos < Len(blob)
  /\ IF pos + 4 > Len(blob)
     THEN /\ Raise("HIIDBError")
          /\ UNCHANGED <<pos, package_items>>
     ELSE LET dp_header == Read(blob, pos, 4)
              body_len == unpack_H(SubSeq(dp_header, 3, 4)) - 4
              dp_data == Read(blob, pos + 4, body_len)
          IN IF dp_header[1] = END_OF_HARDWARE_DEVICE_PATH
             THEN /\ pc' = "device_paths_exit"
                  /\ pos' = pos + 4
                  /\ UNCHANGED <<package_items, ret, err>>
             ELSE IF pos + 4 + body_len > Len(blob)
             THEN /\ Raise("HIIDBError")
                  /\ pos' = pos + 4
                  /\ UNCHANGED package_items
             ELSE /\ package_items' =
                       Append(package_items,
                              <<dp_header[1], dp_header[2], dp_data>>)
                  /\ pos' = pos + 4 + Len(dp_data)
                  /\ UNCHANGED <<pc, ret, err>>
  /\ UNCHANGED <<items_frame, self_package_items, block_type, start_offset>>

\* the code after the loop of _parse_device_paths, and the return of items
DevicePathsExit ==
  /\ \/ pc = "device_paths" /\ pos >= Len(blob)
     \/ pc = "device_paths_exit"
  /\ IF pos # Len(blob)
     THEN Raise("HIIDBError") /\ UNCHANGED self_package_items
     ELSE Return(package_items) /\ self_package_items' = Some(package_items)
  /\ UNCHANGED <<items_frame, pos, package_items, block_type, start_offset>>

\* the bytes a glyph must find before it is read (the tests of the two loops
\* of _parse_simple_fonts) and the bytes skipped after a wide glyph
NarrowGlyphBytes == 22

WideGlyphBytes == 44

\* WideGlyphPad with 6 reserved bytes, which makes a wide record 47 bytes
WideGlyphPad_six == 3 + 3

WideGlyphPad == 3

\* what is left alone by the steps of the parser of SIMPLE_FONTS
fonts_frame ==
  <<entry, blob, package_type, package_lists, packages, self_packages,
    package_items, block_type, start_offset, parse_runs, requests>>

\* one iteration of the first loop of _parse_simple_fonts
NarrowGlyphIter ==
  /\ pc = "simple_fonts"
  /\ ng_count > 0
  /\ IF pos + NarrowGlyphBytes > Len(blob)
     THEN /\ Raise("HIIDBError")
          /\ UNCHANGED <<pos, ng_count, narrow_glyphs>>
     ELSE LET char == decode_UTF16(Read(blob, pos, 2))
          IN IF ~char.ok
             THEN /\ Raise("UnicodeDecodeError")
                  /\ pos' = pos + 2
                  /\ UNCHANGED <<ng_count, narrow_glyphs>>
             ELSE /\ narrow_glyphs' =
                       Append(narrow_glyphs,
                              <<char.text, Read(blob, pos + 2, 1)[1],
                                Read(blob, pos + 3, 19)>>)
                  /\ pos' = pos + 2 + 1 + 19
                  /\ ng_count' = ng_count - 1
                  /\ UNCHANGED <<pc, ret, err>>
  /\ UNCHANGED <<fonts_frame, self_package_items, wg_count, wide_glyphs>>

\* one iteration of the second loop of _parse_simple_fonts
WideGlyphIter ==
  /\ pc = "simple_fonts"
  /\ ng_count = 0
  /\ wg_count > 0
  /\ IF pos + WideGlyphBytes > Len(blob)
     THEN /\ Raise("HIIDBError")
          /\ UNCHANGED <<pos, wg_count, wide_glyphs>>
     ELSE LET char == decode_UTF16(Read(blob, pos, 2))
          IN IF ~char.ok
             THEN /\ Raise("UnicodeDecodeError")
                  /\ pos' = pos + 2
                  /\ UNCHANGED <<wg_count, wide_glyphs>>
             ELSE /\ wide_glyphs' =
                       Append(wide_glyphs,
                              <<char.text, Read(blob, pos + 2, 1)[1],
                                Read(blob, pos + 3, 19),
                                Read(blob, pos + 22, 19)>>)
                  /\ pos' = pos + 2 + 1 + 19 + 19 + WideGlyphPad
                  /\ wg_count' = wg_count - 1
                  /\ UNCHANGED <<pc, ret, err>>
  /\ UNCHANGED <<fonts_frame, self_package_items, ng_count, narrow_glyphs>>

\* the code after the loops of _parse_simple_fonts, and the return of items
SimpleFontsExit ==
  /\ pc = "simple_fonts"
  /\ ng_count = 0
  /\ wg_count = 0
  /\ IF pos # Len(blob)
     THEN Raise("HIIDBError") /\ UNCHANGED self_package_items
     ELSE /\ Return(<<narrow_glyphs, wide_glyphs>>)
          /\ self_package_items' = Some(<<narrow_glyphs, wide_glyphs>>)
  /\ UNCHANGED <<fonts_frame, pos, ng_count, wg_count, narrow_glyphs,
                 wide_glyphs>>

\* ------------------------------------------------------------ the system
InitScan ==
  /\ entry = "scan"
  /\ blob \in ScanInputs
  /\ package_type = TYPE_ALL

InitPackages ==
  /\ entry = "packages"
  /\ blob \in PackagesInputs
  /\ package_type = TYPE_ALL

InitItems ==
  /\ entry = "items"
  /\ \E input \in ItemsInputs :
       /\ package_type = input[1]
       /\ blob = input[2]

Init ==
  /\ InitScan \/ InitPackages \/ InitItems
  /\ pc = "idle"
  /\ pos = 0
  /\ package_lists = << >>
  /\ packages = << >>
  /\ self_packages = None
  /\ self_package_items = None
  /\ package_items = << >>
  /\ block_type = None
  /\ start_offset = 0
  /\ ng_count = 0
  /\ wg_count = 0
  /\ narrow_glyphs = << >>
  /\ wide_glyphs = << >>
  /\ parse_runs = 0
  /\ ret = None
  /\ err = ""
  /\ requests = 0

Next ==
  \/ ScanCall
  \/ ScanIter
  \/ ScanExit
  \/ PackagesCall
  \/ PackagesIter
  \/ PackagesExit
  \/ ItemsRequest
  \/ StringsIter
  \/ Ucs2Read
  \/ StringsExit
  \/ DevicePathsIter
  \/ DevicePathsExit
  \/ NarrowGlyphIter
  \/ WideGlyphIter
  \/ SimpleFontsExit

Spec == Init /\ [][Next]_vars

\* ------------------------------------------------------------ properties
\* the concatenation of a sequence of byte strings
RECURSIVE Flatten(_)
Flatten(seqs) ==
  IF seqs = << >> THEN << >> ELSE Head(seqs) \o Flatten(Tail(seqs))

\* the sum of the lengths of the first n elements of a sequence of sequences
RECURSIVE TotalLen(_, _)
TotalLen(seqs, n) ==
  IF n = 0 THEN 0 ELSE TotalLen(seqs, n - 1) + Len(seqs[n])

\* the 32-bit size a package list header at offset off of the database declares
DeclaredListSize(off) == unpack_L(Slice(blob, off + 16, off + 20))

\* a returned scan tiles the input: list i lies at the offset where list i-1
\* ended, a whole 20-byte header lies there, the list is as long as the
\* header declares and ends inside the input, and the lists together are the
\* input
ScanResultExact ==
  (entry = "scan" /\ pc = "returned") =>
    LET lists == ret[1]
    IN /\ Flatten(lists) = blob
       /\ TotalLen(lists, Len(lists)) = Len(blob)
       /\ \A i \in 1..Len(lists) :
            LET off == TotalLen(lists, i - 1)
            IN /\ off + 20 <= Len(blob)
               /\ DeclaredListSize(off) = Len(lists[i])
               /\ off + DeclaredListSize(off) <= Len(blob)
               /\ lists[i] = Slice(blob, off, off + DeclaredListSize(off))

\* the empty database decodes to no package list
ScanEmptyInput ==
  (entry = "scan" /\ blob = << >> /\ pc \in {"returned", "error"}) =>
    (pc = "returned" /\ ret = Some(<< >>))

\* an iteration of scan that finds fewer than 20 bytes for a header, or a
\* declared size that reaches past the end of the input, raises HIIDBError
ScanRejects ==
  (/\ pc = "scan"
   /\ pos < Len(blob)
   /\ \/ pos + 20 > Len(blob)
      \/ pos + DeclaredListSize(pos) > Len(blob)) =>
    (pc' = "error" /\ err' = "HIIDBError" /\ ret' = None)

\* C1: scan either fails or returns package lists whose blobs, concatenated
\* in order, are the input exactly (the declared sizes add up to its
\* length); the empty input gives the empty tuple; a list whose declared
\* size reaches past the end, or a header of fewer than 20 bytes, is
\* rejected with an error, never truncated.
C1_ScanConsumesInputExactly ==
  /\ [](ScanResultExact /\ ScanEmptyInput)
  /\ [][ScanRejects]_vars

\* C1 witness: a scan returned two package lists, the first shorter than
\* its own header
C1_Witness ==
  /\ entry = "scan"
  /\ pc = "returned"
  /\ Len(ret[1]) = 2
  /\ Len(ret[1][1]) < 20

\* C2: the loops of scan and of packages end after a number of iterations
\* bounded by the input length, because every iteration that goes round the
\* loop again has moved the cursor forward, also when a package list
\* declares size 0 and when a package that is not PACKAGE_END declares size 0.
C2_CursorAdvancesEveryIteration ==
  [][(pc \in {"scan", "packages"} /\ pc' = pc) => pos' > pos]_vars

\* the 4 header bytes of the package at offset off of the package list
PackageHeaderAt(off) == Slice(blob, off, off + 4)

\* the returned packages are the ones found from offset 20 on: package i
\* lies where package i-1 ended, has the type of the high 8 bits of the
\* header there and is not PACKAGE_END, and its blob is the declared number
\* of bytes from there, all inside the list
PackagesResultExact ==
  (entry = "packages" /\ pc = "returned") =>
    LET found == ret[1]
        blobs == [i \in 1..Len(found) |-> found[i].package_blob]
        stop == 20 + TotalLen(blobs, Len(found))
    IN /\ \A i \in 1..Len(found) :
            LET off == 20 + TotalLen(blobs, i - 1)
                header == PackageHeaderAt(off)
            IN /\ Len(header) = 4
               /\ found[i].package_type = HeaderType(header)
               /\ found[i].package_type # PACKAGE_END
               /\ Len(found[i].package_blob) = HeaderSize(header)
               /\ off + HeaderSize(header) <= Len(blob)
               /\ found[i].package_blob =
                    Slice(blob, off, off + HeaderSize(header))
       \* the packages stop at the end of the list, or at a PACKAGE_END
       \* header that is the last 4 bytes of the list
       /\ \/ stop = Len(blob)
          \/ /\ stop + 4 = Len(blob)
             /\ HeaderType(PackageHeaderAt(stop)) = PACKAGE_END
             /\ stop + HeaderSize(PackageHeaderAt(stop)) <= Len(blob)

\* an iteration of packages that finds a declared size reaching past the
\* end of the list raises HIIDBError, and so does the code after the loop
\* when the cursor is not at the end of the list
PackagesRejects ==
  /\ (/\ pc = "packages"
      /\ pos < Len(blob)
      /\ pos + 4 <= Len(blob)
      /\ pos + HeaderSize(PackageHeaderAt(pos)) > Len(blob)) =>
       (pc' = "error" /\ err' = "HIIDBError")
  /\ (/\ \/ pc = "packages" /\ pos > Len(blob)
         \/ pc = "packages_exit"
      /\ pos # Len(blob)) =>
       (pc' = "error" /\ err' = "HIIDBError")

\* C4: packages either fails or returns, in input order, exactly the
\* packages found from offset 20 up to the first PACKAGE_END package or the
\* end of the list, each with the type of the high 8 bits of its header and
\* a blob as long as the low 24 bits say; it fails when a declared size
\* reaches past the end of the list and when the cursor is not at the end
\* of the list after the loop (nothing may follow the PACKAGE_END header).
C4_PackagesExact ==
  /\ []PackagesResultExact
  /\ [][PackagesRejects]_vars

\* C4 witness: packages returned two packages of a list that a PACKAGE_END
\* header ends
C4_Witness ==
  /\ entry = "packages"
  /\ pc = "returned"
  /\ Len(ret[1]) = 2
  /\ HeaderType(PackageHeaderAt(Len(blob) - 4)) = PACKAGE_END
  /\ ret[1][1].package_type = STRINGS

\* no 0x0000 code unit lies between offset from and the end of the package
\* blob, at the 2-byte steps the search reads
NoTerminatorFrom(from) ==
  \A k \in 0..Len(blob) :
    from + 2 * k + 2 <= Len(blob) =>
      Slice(blob, from + 2 * k, from + 2 * k + 2) # <<0, 0>>

\* C3: the items of a STRINGS package with a STRING_UCS2 block that has no
\* 0x0000 code unit before the end of the package blob fail with a decode
\* error: once the search for the terminator has used up the blob, the
\* request has failed; the search never goes on past the end of the blob.
C3_UnterminatedStringFails ==
  (/\ entry = "items"
   /\ package_type = STRINGS
   /\ block_type = Some(STRING_UCS2)
   /\ NoTerminatorFrom(start_offset + 1)
   /\ pos >= Len(blob)) =>
    (pc = "error" /\ err = "HIIDBError")

\* the package types with a body decoder, according to the specification
DecodedTypes == {STRINGS, DEVICE_PATH, SIMPLE_FONTS}

\* C5: the items of a package of a type without body decoder (any type but
\* STRINGS, DEVICE_PATH and SIMPLE_FONTS) fail with the unsupported package
\* type error and never return an empty result.
C5_UnsupportedTypeFails ==
  (/\ entry = "items"
   /\ package_type \notin DecodedTypes
   /\ pc \in {"returned", "error"}) =>
    (pc = "error" /\ err = "HIIDBError")

\* C6: over any sequence of items requests on one package the type-specific
\* parser runs at most once.
C6_ParserRunsAtMostOnce == parse_runs <= 1

\* C6 as amended: once a request has returned a body, every later request
\* returns that cached body unchanged and no parser runs again.
C6_CachedBodyIsKept ==
  [][self_package_items # None =>
       /\ self_package_items' = self_package_items
       /\ parse_runs' = parse_runs
       /\ pc' = "returned"
       /\ ret' = self_package_items]_vars

\* C6 witness: the second request on a STRINGS package returned the body
\* that the one run of the parser had cached
C6_Witness ==
  /\ entry = "items"
  /\ package_type = STRINGS
  /\ requests = 2
  /\ parse_runs = 1
  /\ pc = "returned"
  /\ Len(ret[1]) >= 2
  /\ self_package_items = ret

\* C7: every failure of scan, packages and items is raised as HIIDBError.
C7_OnlyHIIDBError == pc = "error" => err = "HIIDBError"

\* the 16-bit length a device path node header at offset off declares
NodeLengthAt(off) == unpack_H(Slice(blob, off + 2, off + 4))

\* C8: when a DEVICE_PATH package decodes, the result is the nodes read
\* before the sentinel, in order: node i lies where node i-1 ended, is not
\* the sentinel, and is (type, subtype, body) with body exactly the
\* (length - 4) bytes after its header, whatever the length field holds.
C8_DevicePathNodesExact ==
  (entry = "items" /\ package_type = DEVICE_PATH /\ pc = "returned") =>
    LET nodes == ret[1]
        bodies == [i \in 1..Len(nodes) |-> nodes[i][3]]
    IN \A i \in 1..Len(nodes) :
         LET off == 4 + 4 * (i - 1) + TotalLen(bodies, i - 1)
         IN /\ nodes[i][1] = blob[off + 1]
            /\ nodes[i][1] # END_OF_HARDWARE_DEVICE_PATH
            /\ nodes[i][2] = blob[off + 2]
            /\ Len(nodes[i][3]) = NodeLengthAt(off) - 4
            /\ nodes[i][3] = Slice(blob, off + 4, off + NodeLengthAt(off))

\* narrow_count and wide_count as the SIMPLE_FONTS package blob declares them
DeclaredNarrow == unpack_H(Slice(blob, 4, 6))

DeclaredWide == unpack_H(Slice(blob, 6, 8))

\* a request for the items of a SIMPLE_FONTS package of 8 bytes or more has
\* ended
FontsRequestEnded ==
  /\ entry = "items"
  /\ package_type = SIMPLE_FONTS
  /\ Len(blob) >= 8
  /\ pc \in {"returned", "error"}

\* the returned glyph table holds the declared numbers of glyphs
FontsCountsExact ==
  pc = "returned" =>
    /\ Len(ret[1]) = 2
    /\ Len(ret[1][1]) = DeclaredNarrow
    /\ Len(ret[1][2]) = DeclaredWide

\* C9: a SIMPLE_FONTS package blob of at least 8 bytes that declares n
\* narrow and w wide glyphs decodes if and only if its length is
\* 8 + 22*n + 47*w, and then to exactly n narrow and w wide glyphs; in every
\* other case it fails.
C9_FontsLength47 ==
  FontsRequestEnded =>
    /\ pc = "returned" <=>
         Len(blob) = 8 + 22 * DeclaredNarrow + 47 * DeclaredWide
    /\ FontsCountsExact

\* the 2-byte character code of every glyph record of the blob, the records
\* laid out as 22-byte narrow and then 44-byte wide ones, decodes as UTF-16
GlyphCodesDecode ==
  /\ \A i \in 1..DeclaredNarrow :
       decode_UTF16(Read(blob, 8 + 22 * (i - 1), 2)).ok
  /\ \A j \in 1..DeclaredWide :
       decode_UTF16(Read(blob, 8 + 22 * DeclaredNarrow + 44 * (j - 1), 2)).ok

\* the glyphs of the returned table are the records of the blob, in order
FontsGlyphsExact ==
  pc = "returned" =>
    /\ \A i \in 1..DeclaredNarrow :
         LET off == 8 + 22 * (i - 1)
         IN ret[1][1][i] =
              <<decode_UTF16(Slice(blob, off, off + 2)).text, blob[off + 3],
                Slice(blob, off + 3, off + 22)>>
    /\ \A j \in 1..DeclaredWide :
         LET off == 8 + 22 * DeclaredNarrow + 44 * (j - 1)
         IN ret[1][2][j] =
              <<decode_UTF16(Slice(blob, off, off + 2)).text, blob[off + 3],
                Slice(blob, off + 3, off + 22),
                Slice(blob, off + 22, off + 41)>>

\* C9 as amended: a wide record takes 44 bytes, not 47.  The blob decodes if
\* and only if its length is 8 + 22*n + 44*w and every glyph's character
\* code decodes as UTF-16 (none is a lone surrogate); it then gives exactly
\* n narrow glyphs followed by w wide glyphs, the records of the blob in
\* order; in every other case it fails and returns no glyph table.
C9_FontsLength44 ==
  FontsRequestEnded =>
    /\ pc = "returned" <=>
         /\ Len(blob) = 8 + 22 * DeclaredNarrow + 44 * DeclaredWide
         /\ GlyphCodesDecode
    /\ FontsCountsExact
    /\ FontsGlyphsExact
    /\ pc = "error" => (ret = None /\ self_package_items = None)

\* C9 witness: a blob that declares one narrow and one wide glyph decoded
C9_Witness ==
  /\ FontsRequestEnded
  /\ pc = "returned"
  /\ DeclaredNarrow = 1
  /\ DeclaredWide = 1
  /\ Len(ret[1][2]) = 1

\* the length of the span of each fixed-size block as the specification
\* has it
ClaimedSpan ==
  [t \in FixedBlocks |->
     IF t = SKIP1 THEN 3
     ELSE IF t = DUPLICATE THEN 3
     ELSE IF t = SKIP2 THEN 3
     ELSE IF t = EXT1 THEN 2
     ELSE IF t = EXT2 THEN 3
     ELSE IF t = EXT4 THEN 5
     ELSE 1]

\* the same with SKIP1 as 2 bytes
AmendedSpan == [ClaimedSpan EXCEPT ![SKIP1] = 2]

\* where the blocks of the STRINGS package blob begin
DeclaredHeaderSize == unpack_L(Slice(blob, 4, 8))

\* every fixed-size block captured so far is span[t] bytes long (but the
\* last one when the blob ended inside it), and the captured blocks lie one
\* right after the other from header_size to the cursor
SpansAre(span) ==
  (entry = "items" /\ package_type = STRINGS) =>
    /\ \A k \in 1..Len(package_items) :
         package_items[k][1] \in FixedBlocks =>
           \/ Len(package_items[k]) = span[package_items[k][1]]
           \/ k = Len(package_items) /\ pos > Len(blob)
    /\ pc \in {"strings", "strings_exit", "returned"} =>
         Flatten(package_items) = Slice(blob, DeclaredHeaderSize, pos)

\* C10: each fixed-size block of a STRINGS package is captured as its tag
\* plus the skipped bytes: spans of 3 (SKIP1), 3 (DUPLICATE), 3 (SKIP2),
\* 2 (EXT1), 3 (EXT2), 5 (EXT4) and 1 (END) bytes, the next tag read right
\* after the span.
C10_ClaimedSpans == SpansAre(ClaimedSpan)

\* C10 as amended: SKIP1 skips 1 byte, so its span is 2 bytes; the other
\* spans are as claimed, and the next tag is read right after the span.
C10_AmendedSpans == SpansAre(AmendedSpan)

\* C10 witness: a STRINGS package decoded to three blocks, a SKIP1 block
\* among them
C10_Witness ==
  /\ entry = "items"
  /\ package_type = STRINGS
  /\ pc = "returned"
  /\ Len(ret[1]) = 3
  /\ \E k \in 1..3 : ret[1][k][1] = SKIP1
====
